---- MODULE Spec2Model ----
(***************************************************************************)
(* A model of the ZFS volume driver of docker-zfs-plugin (zfs/driver.go).  *)
(*                                                                         *)
(* Names (volume names, dataset paths, mountpoints) are sequences of       *)
(* one-character strings, so that strings.Contains, strings.SplitN and     *)
(* fmt.Sprintf are computed character by character.                        *)
(*                                                                         *)
(* The dataset backend (the go-zfs library and the zfs command under it)   *)
(* is not part of the repository: it is modelled from the interface the    *)
(* specification gives it (existence check, recursive creation, lookup,    *)
(* enumeration of descendants, property retrieval, destruction).           *)
(***************************************************************************)
EXTENDS Naturals, Sequences, FiniteSets, TLC

\* The longest root list NewZfsDriver is started with.
MaxRoots == 2

\* The dataset names a root list is drawn from.
RootNames == { <<"R">>, <<"S">> }

\* The volume names the host sends.
ReqNames ==
  { <<"a">>,                         \* no separator, not under any root
    <<"a", "_", "b">>,               \* group a, member b
    <<"_", "b">>,                    \* empty group segment
    <<"a", "_">>,                    \* empty member segment
    <<"a", "_", "b", "_", "c">>,     \* the member holds the separator
    <<"R", "/", "a", "/", "b">>,     \* a qualified path
    <<"R", "/", "a">>,               \* the path of a group parent
    <<"R">>,                         \* a root's own name
    <<"S", "/", "c">> }              \* a dataset under the second root

\* The callers whose Create calls may overlap: the plugin's HTTP server runs
\* each request on a goroutine of its own, and ZfsDriver holds no lock.
Procs == {"c1", "c2"}

\* The creation times the backend reports (seconds).
Times == {0, 1}

VARIABLES
  pc,        \* "init" before NewZfsDriver, "running" with a driver, "failed" without
  rds,       \* ZfsDriver.rds: the names of the root datasets, in configuration order
  datasets,  \* the backend: the set of the names of the datasets that exist
  last,      \* the last operation: its request, its response, and its backend
             \* calls, each <<function, dataset name, answer>>
  creating   \* the Create call of each concurrent caller: where it stands
             \* between the existence check and the creation

vars == <<pc, rds, datasets, last, creating>>

----------------------------------------------------------------------------
(* package strings, fmt *)

\* strings.Index(s, c): the first position of c in s, 0 when there is none.
Index(s, c) ==
  IF \E i \in 1..Len(s) : s[i] = c
  THEN CHOOSE i \in 1..Len(s) : s[i] = c /\ \A j \in 1..(i - 1) : s[j] # c
  ELSE 0

\* strings.LastIndex(s, c)
LastIndex(s, c) ==
  IF \E i \in 1..Len(s) : s[i] = c
  THEN CHOOSE i \in 1..Len(s) : s[i] = c /\ \A j \in (i + 1)..Len(s) : s[j] # c
  ELSE 0

\* strings.Contains(s, c)
Contains(s, c) == Index(s, c) # 0

\* strings.SplitN(s, c, 2): s cut at the first c, or s alone when it holds none.
SplitN2(s, c) ==
  IF Index(s, c) = 0
  THEN << s >>
  ELSE << SubSeq(s, 1, Index(s, c) - 1), SubSeq(s, Index(s, c) + 1, Len(s)) >>

\* fmt.Sprintf("%s/%s/%s", a, b, c)
Sprintf3(a, b, c) == a \o <<"/">> \o b \o <<"/">> \o c

\* time.Time.Format(time.RFC3339) of a time t seconds after the epoch (UTC).
FormatRFC3339(t) ==
  IF t = 0 THEN "1970-01-01T00:00:00Z" ELSE "1970-01-01T00:00:01Z"

----------------------------------------------------------------------------
(* The dataset backend *)

\* The datasets above p: "R" and "R/a" for "R/a/b".
RECURSIVE Ancestors(_)
Ancestors(p) ==
  IF LastIndex(p, "/") = 0
  THEN {}
  ELSE LET q == SubSeq(p, 1, LastIndex(p, "/") - 1)
       IN  {q} \cup Ancestors(q)

\* A dataset name has no empty component.
ValidName(p) ==
  /\ p # << >>
  /\ p[1] # "/"
  /\ p[Len(p)] # "/"
  /\ \A i \in 1..(Len(p) - 1) : ~(p[i] = "/" /\ p[i + 1] = "/")

\* p is a descendant of root.
IsUnder(p, root) ==
  /\ Len(p) > Len(root) + 1
  /\ SubSeq(p, 1, Len(root)) = root
  /\ p[Len(root) + 1] = "/"

\* zfs.DatasetExists(p)
DatasetExists(ds, p) == p \in ds

\* zfs.CreateDatasetRecursive(p, opts), succeeding: p and its missing parents.
CreateDatasetRecursive(ds, p) == ds \cup Ancestors(p) \cup {p}

\* zfs.CreateDatasetRecursive(p, opts), failing at p after its parents were made.
CreateParentsOnly(ds, p) == ds \cup Ancestors(p)

\* Dataset.Destroy() is refused while the dataset has descendants.
HasDependents(ds, p) == \E q \in ds : IsUnder(q, p)

\* The order of the characters (ASCII), and of names (zfs lists by name).
CharOrder == << "/", "R", "S", "_", "a", "b", "c" >>

Rank(c) == CHOOSE i \in 1..Len(CharOrder) : CharOrder[i] = c

RECURSIVE NameLess(_, _)
NameLess(s, t) ==
  IF s = << >> THEN t # << >>
  ELSE IF t = << >> THEN FALSE
  ELSE IF s[1] = t[1] THEN NameLess(Tail(s), Tail(t))
  ELSE Rank(s[1]) < Rank(t[1])

RECURSIVE SortByName(_)
SortByName(S) ==
  IF S = {}
  THEN << >>
  ELSE LET m == CHOOSE x \in S : \A y \in S \ {x} : NameLess(x, y)
       IN  << m >> \o SortByName(S \ {m})

\* Dataset.DatasetList(): the descendants of root, in the backend's order.
DatasetList(ds, root) == SortByName({ q \in ds : IsUnder(q, root) })

\* Dataset.GetMountpoint(), succeeding: the mountpoint property of p.
GetMountpoint(p) == <<"/">> \o p

----------------------------------------------------------------------------
(* Responses *)

NoVolume == [Name |-> << >>, Mountpoint |-> << >>, CreatedAt |-> ""]

\* The record of an operation that returned no error and nothing else.
Response(op, name) ==
  [op |-> op, name |-> name, err |-> "", path |-> << >>, vol |-> NoVolume,
   vols |-> << >>, mp |-> << >>, scope |-> "", dss |-> << >>, calls |-> << >>]

----------------------------------------------------------------------------
(* NewZfsDriver *)

\* The root lists NewZfsDriver is called with.
RootLists == UNION { [1..n -> RootNames] : n \in 0..MaxRoots }

\* The loop of NewZfsDriver from root i on. The backend fails at root failAt
\* (0: nowhere), in the creation of an absent root or in the lookup.
RECURSIVE EnsureRoots(_, _, _, _, _, _, _)
EnsureRoots(dss, i, ds, acc, calls, failAt, failKind) ==
  IF i > Len(dss)
  THEN [err |-> "", datasets |-> ds, rds |-> acc, calls |-> calls]
  ELSE
    LET absent == ~DatasetExists(ds, dss[i])
        c1 == Append(calls, <<"DatasetExists", dss[i], IF absent THEN "false" ELSE "true">>)
        c2 == IF absent THEN Append(c1, <<"CreateDatasetRecursive", dss[i], "ok">>) ELSE c1
        ds2 == IF absent THEN CreateDatasetRecursive(ds, dss[i]) ELSE ds
    IN  IF absent /\ failAt = i /\ failKind = "create"
        THEN [err |-> "CreateError", datasets |-> ds, rds |-> << >>,
              calls |-> Append(c1, <<"CreateDatasetRecursive", dss[i], "err">>)]
        ELSE IF failAt = i /\ failKind = "get"
        THEN [err |-> "GetError", datasets |-> ds2, rds |-> << >>,
              calls |-> Append(c2, <<"GetDataset", dss[i], "err">>)]
        ELSE EnsureRoots(dss, i + 1, ds2, Append(acc, dss[i]),
                         Append(c2, <<"GetDataset", dss[i], "ok">>), failAt, failKind)

\* NewZfsDriverResult destroying, when it fails, the roots it created.
NewZfsDriverResultRollingBack(dss, ds, failAt, failKind) ==
  IF Len(dss) < 1
  THEN [err |-> "No datasets specified", datasets |-> ds, rds |-> << >>,
        calls |-> << >>]
  ELSE LET r == EnsureRoots(dss, 1, ds, << >>, << >>, failAt, failKind)
       IN  IF r.err = "" THEN r ELSE [r EXCEPT !.datasets = ds]

NewZfsDriverResult(dss, ds, failAt, failKind) ==
  IF Len(dss) < 1
  THEN [err |-> "No datasets specified", datasets |-> ds, rds |-> << >>,
        calls |-> << >>]
  ELSE EnsureRoots(dss, 1, ds, << >>, << >>, failAt, failKind)

NewZfsDriver ==
  /\ pc = "init"
  /\ \E dss \in RootLists, failAt \in 0..MaxRoots, failKind \in {"create", "get"} :
       LET r == NewZfsDriverResult(dss, datasets, failAt, failKind)
       IN  /\ pc' = IF r.err = "" THEN "running" ELSE "failed"
           /\ rds' = r.rds
           /\ datasets' = r.datasets
           /\ last' = [Response("NewZfsDriver", << >>) EXCEPT
                         !.err = r.err, !.dss = dss, !.calls = r.calls]
  /\ UNCHANGED creating

----------------------------------------------------------------------------
(* Create *)

\* ResolveName cutting the volume name at its last separator, not its first.
ResolveNameAtLastSeparator(volumeName, roots) ==
  IF Contains(volumeName, "_") /\ Len(roots) > 0
  THEN Sprintf3(roots[1],
                SubSeq(volumeName, 1, LastIndex(volumeName, "_") - 1),
                SubSeq(volumeName, LastIndex(volumeName, "_") + 1, Len(volumeName)))
  ELSE volumeName

\* ResolveName placing a name without separator under the first root too.
ResolveNameUnderRoot(volumeName, roots) ==
  IF Len(roots) = 0
  THEN volumeName
  ELSE IF Contains(volumeName, "_")
  THEN Sprintf3(roots[1], SplitN2(volumeName, "_")[1], SplitN2(volumeName, "_")[2])
  ELSE roots[1] \o <<"/">> \o volumeName

\* The dataset name Create computes from the volume name.
ResolveName(volumeName, roots) ==
  IF Contains(volumeName, "_")
  THEN LET parts == SplitN2(volumeName, "_")
       IN  IF Len(parts) = 2 /\ Len(roots) > 0
           THEN Sprintf3(roots[1], parts[1], parts[2])
           ELSE volumeName
  ELSE volumeName

\* CreateResult without the existence check: the backend is asked to create
\* whatever is there, and refuses a dataset that exists.
CreateResultUnchecked(name, roots, ds, outcome) ==
  LET datasetName == ResolveName(name, roots)
  IN  IF outcome = "ok" /\ ValidName(datasetName) /\ ~DatasetExists(ds, datasetName)
      THEN [err |-> "", path |-> datasetName,
            datasets |-> CreateDatasetRecursive(ds, datasetName),
            calls |-> << <<"CreateDatasetRecursive", datasetName, "ok">> >>]
      ELSE [err |-> "CreateError", path |-> datasetName, datasets |-> ds,
            calls |-> << <<"CreateDatasetRecursive", datasetName, "err">> >>]

\* Create with the backend's creation ending in outcome: "ok", "fail" (nothing
\* made) or "partial" (the parents made, the dataset not). The backend makes
\* nothing for a name that is not valid.
CreateResult(name, roots, ds, outcome) ==
  LET datasetName == ResolveName(name, roots)
      found == << <<"DatasetExists", datasetName, "true">> >>
      absent == << <<"DatasetExists", datasetName, "false">> >>
      created == Append(absent, <<"CreateDatasetRecursive", datasetName, "ok">>)
      refused == Append(absent, <<"CreateDatasetRecursive", datasetName, "err">>)
  IN  IF DatasetExists(ds, datasetName)
      THEN [err |-> "AlreadyExists", path |-> datasetName, datasets |-> ds,
            calls |-> found]
      ELSE IF outcome = "ok" /\ ValidName(datasetName)
      THEN [err |-> "", path |-> datasetName,
            datasets |-> CreateDatasetRecursive(ds, datasetName), calls |-> created]
      ELSE IF outcome = "partial" /\ ValidName(datasetName)
      THEN [err |-> "CreateError", path |-> datasetName,
            datasets |-> CreateParentsOnly(ds, datasetName), calls |-> refused]
      ELSE [err |-> "CreateError", path |-> datasetName, datasets |-> ds,
            calls |-> refused]

Create ==
  /\ pc = "running"
  /\ \E name \in ReqNames, outcome \in {"ok", "fail", "partial"} :
       LET r == CreateResult(name, rds, datasets, outcome)
       IN  /\ datasets' = r.datasets
           /\ last' = [Response("Create", name) EXCEPT
                         !.err = r.err, !.path = r.path, !.calls = r.calls]
  /\ UNCHANGED <<pc, rds, creating>>

\* A caller that is not in a Create call.
Idle == [stage |-> "idle", name |-> << >>, path |-> << >>, err |-> "",
         dup |-> FALSE]

\* Create of caller p up to the existence check: the name is resolved and
\* DatasetExists is asked; a dataset that exists ends the call with the
\* already-exists error, otherwise the caller goes on to the creation.
CreateCheck(p) ==
  /\ pc = "running"
  /\ creating[p].stage = "idle"
  /\ \E name \in ReqNames :
       LET datasetName == ResolveName(name, rds)
       IN  IF DatasetExists(datasets, datasetName)
           THEN /\ creating' = [creating EXCEPT ![p] =
                                  [stage |-> "done", name |-> name,
                                   path |-> datasetName, err |-> "AlreadyExists",
                                   dup |-> FALSE]]
                /\ last' = [Response("Create", name) EXCEPT
                              !.err = "AlreadyExists", !.path = datasetName,
                              !.calls = << <<"DatasetExists", datasetName, "true">> >>]
           ELSE /\ creating' = [creating EXCEPT ![p] =
                                  [stage |-> "checked", name |-> name,
                                   path |-> datasetName, err |-> "",
                                   dup |-> FALSE]]
                /\ last' = last
  /\ UNCHANGED <<pc, rds, datasets>>

\* Create of caller p from the creation on. The backend refuses to create a
\* dataset that exists by now (dup), and Create wraps every error of the
\* backend in its "failed to create dataset" error; a dataset still absent
\* is created as in a Create that nobody overlaps.
CreateMake(p) ==
  /\ pc = "running"
  /\ creating[p].stage = "checked"
  /\ \E outcome \in {"ok", "fail", "partial"} :
       LET name == creating[p].name
           datasetName == creating[p].path
           dup == DatasetExists(datasets, datasetName)
           r == IF dup
                THEN [err |-> "CreateError", path |-> datasetName,
                      datasets |-> datasets,
                      calls |-> << <<"DatasetExists", datasetName, "false">>,
                                   <<"CreateDatasetRecursive", datasetName, "err">> >>]
                ELSE CreateResult(name, rds, datasets, outcome)
       IN  /\ datasets' = r.datasets
           /\ creating' = [creating EXCEPT ![p] =
                             [stage |-> "done", name |-> name, path |-> datasetName,
                              err |-> r.err, dup |-> dup]]
           /\ last' = [Response("Create", name) EXCEPT
                         !.err = r.err, !.path = r.path, !.calls = r.calls]
  /\ UNCHANGED <<pc, rds>>

----------------------------------------------------------------------------
(* List *)

\* VolumesOf leaving the loop at the first mountpoint failure (break for
\* continue).
RECURSIVE VolumesOfUntilFailure(_, _)
VolumesOfUntilFailure(dsl, bad) ==
  IF dsl = << >> \/ Head(dsl) \in bad
  THEN << >>
  ELSE << [Name |-> Head(dsl), Mountpoint |-> GetMountpoint(Head(dsl)),
           CreatedAt |-> ""] >> \o VolumesOfUntilFailure(Tail(dsl), bad)

\* The inner loop of List: the volumes of the datasets dsl, those whose
\* mountpoint the backend fails to give (bad) skipped.
RECURSIVE VolumesOf(_, _)
VolumesOf(dsl, bad) ==
  IF dsl = << >>
  THEN << >>
  ELSE IF Head(dsl) \in bad
  THEN VolumesOf(Tail(dsl), bad)
  ELSE << [Name |-> Head(dsl), Mountpoint |-> GetMountpoint(Head(dsl)),
           CreatedAt |-> ""] >> \o VolumesOf(Tail(dsl), bad)

\* The backend calls of the inner loop, each with its answer.
MountpointCalls(dsl, bad) ==
  [i \in 1..Len(dsl) |->
     <<"GetMountpoint", dsl[i], IF dsl[i] \in bad THEN "err" ELSE "ok">>]

\* ListFrom returning, when an enumeration fails, the volumes it has so far.
RECURSIVE ListFromKeepingVolumes(_, _, _, _, _, _)
ListFromKeepingVolumes(roots, i, ds, bad, vols, calls) ==
  IF i > Len(roots)
  THEN [err |-> "", vols |-> vols, calls |-> calls]
  ELSE IF ~DatasetExists(ds, roots[i])
  THEN [err |-> "ListError", vols |-> vols,
        calls |-> Append(calls, <<"DatasetList", roots[i], "err">>)]
  ELSE LET dsl == DatasetList(ds, roots[i])
       IN  ListFromKeepingVolumes(roots, i + 1, ds, bad, vols \o VolumesOf(dsl, bad),
                                  Append(calls, <<"DatasetList", roots[i], "ok">>)
                                    \o MountpointCalls(dsl, bad))

\* The outer loop of List from root i on. The enumeration of a root that no
\* longer exists fails.
RECURSIVE ListFrom(_, _, _, _, _, _)
ListFrom(roots, i, ds, bad, vols, calls) ==
  IF i > Len(roots)
  THEN [err |-> "", vols |-> vols, calls |-> calls]
  ELSE IF ~DatasetExists(ds, roots[i])
  THEN [err |-> "ListError", vols |-> << >>,
        calls |-> Append(calls, <<"DatasetList", roots[i], "err">>)]
  ELSE LET dsl == DatasetList(ds, roots[i])
       IN  ListFrom(roots, i + 1, ds, bad, vols \o VolumesOf(dsl, bad),
                    Append(calls, <<"DatasetList", roots[i], "ok">>)
                      \o MountpointCalls(dsl, bad))

\* ListResult walking the roots from the last to the first.
ListResultLastRootFirst(roots, ds, bad) ==
  ListFrom([i \in 1..Len(roots) |-> roots[Len(roots) + 1 - i]], 1, ds, bad,
           << >>, << >>)

ListResult(roots, ds, bad) == ListFrom(roots, 1, ds, bad, << >>, << >>)

\* The datasets some configured root enumerates.
Listed(roots, ds) == { d \in ds : \E i \in 1..Len(roots) : IsUnder(d, roots[i]) }

List ==
  /\ pc = "running"
  /\ \E bad \in SUBSET Listed(rds, datasets) :
       LET r == ListResult(rds, datasets, bad)
       IN  last' = [Response("List", << >>) EXCEPT
                      !.err = r.err, !.vols = r.vols, !.calls = r.calls]
  /\ UNCHANGED <<pc, rds, datasets, creating>>

----------------------------------------------------------------------------
(* Get, Path, Mount *)

\* getVolume returning the error of a failed creation-time read.
getVolumeNeedingCreation(name, ds, mpOK, ctOK, ts) ==
  IF ~DatasetExists(ds, name)
  THEN [err |-> "NotFound", vol |-> NoVolume,
        calls |-> << <<"GetDataset", name, "err">> >>]
  ELSE IF ~mpOK
  THEN [err |-> "MountpointError", vol |-> NoVolume,
        calls |-> << <<"GetDataset", name, "ok">>, <<"GetMountpoint", name, "err">> >>]
  ELSE IF ~ctOK
  THEN [err |-> "CreationError", vol |-> NoVolume,
        calls |-> << <<"GetDataset", name, "ok">>, <<"GetMountpoint", name, "ok">>,
                     <<"GetCreation", name, "err">> >>]
  ELSE [err |-> "",
        vol |-> [Name |-> name, Mountpoint |-> GetMountpoint(name),
                 CreatedAt |-> FormatRFC3339(ts)],
        calls |-> << <<"GetDataset", name, "ok">>, <<"GetMountpoint", name, "ok">>,
                     <<"GetCreation", name, "ok">> >>]

\* getVolume(name): mpOK and ctOK say whether the backend gives the
\* mountpoint and the creation time, ts is the creation time it gives.
getVolume(name, ds, mpOK, ctOK, ts) ==
  LET found == << <<"GetDataset", name, "ok">> >>
      mounted == Append(found, <<"GetMountpoint", name, "ok">>)
  IN  IF ~DatasetExists(ds, name)
      THEN [err |-> "NotFound", vol |-> NoVolume,
            calls |-> << <<"GetDataset", name, "err">> >>]
      ELSE IF ~mpOK
      THEN [err |-> "MountpointError", vol |-> NoVolume,
            calls |-> Append(found, <<"GetMountpoint", name, "err">>)]
      ELSE IF ~ctOK
      THEN [err |-> "",
            vol |-> [Name |-> name, Mountpoint |-> GetMountpoint(name),
                     CreatedAt |-> ""],
            calls |-> Append(mounted, <<"GetCreation", name, "err">>)]
      ELSE [err |-> "",
            vol |-> [Name |-> name, Mountpoint |-> GetMountpoint(name),
                     CreatedAt |-> FormatRFC3339(ts)],
            calls |-> Append(mounted, <<"GetCreation", name, "ok">>)]

\* What the backend answers to the two property reads of one Get: no
\* mountpoint, a mountpoint and no creation time, or both.
PropertyOutcomes ==
  { [mpOK |-> FALSE, ctOK |-> FALSE, ts |-> 0],
    [mpOK |-> TRUE, ctOK |-> FALSE, ts |-> 0] }
  \cup { [mpOK |-> TRUE, ctOK |-> TRUE, ts |-> t] : t \in Times }

Get ==
  /\ pc = "running"
  /\ \E name \in ReqNames, p \in PropertyOutcomes :
       LET r == getVolume(name, datasets, p.mpOK, p.ctOK, p.ts)
       IN  last' = [Response("Get", name) EXCEPT
                      !.err = r.err, !.vol = r.vol, !.calls = r.calls]
  /\ UNCHANGED <<pc, rds, datasets, creating>>

\* getMP looking up the dataset Create resolves the name to.
getMPResolving(name, ds, mpOK) ==
  LET datasetName == ResolveName(name, rds)
  IN  IF ~DatasetExists(ds, datasetName)
      THEN [err |-> "NotFound", mp |-> << >>,
            calls |-> << <<"GetDataset", datasetName, "err">> >>]
      ELSE IF ~mpOK
      THEN [err |-> "MountpointError", mp |-> << >>,
            calls |-> << <<"GetDataset", datasetName, "ok">>,
                         <<"GetMountpoint", datasetName, "err">> >>]
      ELSE [err |-> "", mp |-> GetMountpoint(datasetName),
            calls |-> << <<"GetDataset", datasetName, "ok">>,
                         <<"GetMountpoint", datasetName, "ok">> >>]

\* getMP(name)
getMP(name, ds, mpOK) ==
  LET found == << <<"GetDataset", name, "ok">> >>
  IN  IF ~DatasetExists(ds, name)
      THEN [err |-> "NotFound", mp |-> << >>,
            calls |-> << <<"GetDataset", name, "err">> >>]
      ELSE IF ~mpOK
      THEN [err |-> "MountpointError", mp |-> << >>,
            calls |-> Append(found, <<"GetMountpoint", name, "err">>)]
      ELSE [err |-> "", mp |-> GetMountpoint(name),
            calls |-> Append(found, <<"GetMountpoint", name, "ok">>)]

Path ==
  /\ pc = "running"
  /\ \E name \in ReqNames, mpOK \in BOOLEAN :
       LET r == getMP(name, datasets, mpOK)
       IN  last' = [Response("Path", name) EXCEPT
                      !.err = r.err, !.mp = r.mp, !.calls = r.calls]
  /\ UNCHANGED <<pc, rds, datasets, creating>>

\* Mount creating the dataset it does not find.
MountCreatingMissing ==
  /\ pc = "running"
  /\ \E name \in ReqNames, mpOK \in BOOLEAN :
       LET ds == IF ValidName(name) THEN CreateDatasetRecursive(datasets, name)
                 ELSE datasets
           r == getMP(name, ds, mpOK)
       IN  /\ datasets' = ds
           /\ last' = [Response("Mount", name) EXCEPT
                         !.err = r.err, !.mp = r.mp, !.calls = r.calls]
  /\ UNCHANGED <<pc, rds, creating>>

Mount ==
  /\ pc = "running"
  /\ \E name \in ReqNames, mpOK \in BOOLEAN :
       LET r == getMP(name, datasets, mpOK)
       IN  last' = [Response("Mount", name) EXCEPT
                      !.err = r.err, !.mp = r.mp, !.calls = r.calls]
  /\ UNCHANGED <<pc, rds, datasets, creating>>

----------------------------------------------------------------------------
(* Remove *)

\* RemoveResult dropping the error of the lookup.
RemoveResultIgnoringLookup(name, ds) ==
  IF ~DatasetExists(ds, name)
  THEN [err |-> "", datasets |-> ds, calls |-> << <<"GetDataset", name, "err">> >>]
  ELSE IF HasDependents(ds, name)
  THEN [err |-> "DestroyError", datasets |-> ds,
        calls |-> << <<"GetDataset", name, "ok">>, <<"Destroy", name, "err">> >>]
  ELSE [err |-> "", datasets |-> ds \ {name},
        calls |-> << <<"GetDataset", name, "ok">>, <<"Destroy", name, "ok">> >>]

\* RemoveResult destroying also the parent that the dataset leaves empty.
RemoveResultPruningParent(name, ds) ==
  LET parent == SubSeq(name, 1, LastIndex(name, "/") - 1)
      rest == ds \ {name}
  IN  IF ~DatasetExists(ds, name)
      THEN [err |-> "NotFound", datasets |-> ds,
            calls |-> << <<"GetDataset", name, "err">> >>]
      ELSE IF HasDependents(ds, name)
      THEN [err |-> "DestroyError", datasets |-> ds,
            calls |-> << <<"GetDataset", name, "ok">>, <<"Destroy", name, "err">> >>]
      ELSE [err |-> "",
            datasets |-> IF LastIndex(name, "/") # 0 /\ ~HasDependents(rest, parent)
                         THEN rest \ {parent}
                         ELSE rest,
            calls |-> << <<"GetDataset", name, "ok">>, <<"Destroy", name, "ok">> >>]

\* Remove(name): the lookup fails for a name with no dataset, and the
\* backend refuses to destroy a dataset that has descendants.
RemoveResult(name, ds) ==
  LET found == << <<"GetDataset", name, "ok">> >>
  IN  IF ~DatasetExists(ds, name)
      THEN [err |-> "NotFound", datasets |-> ds,
            calls |-> << <<"GetDataset", name, "err">> >>]
      ELSE IF HasDependents(ds, name)
      THEN [err |-> "DestroyError", datasets |-> ds,
            calls |-> Append(found, <<"Destroy", name, "err">>)]
      ELSE [err |-> "", datasets |-> ds \ {name},
            calls |-> Append(found, <<"Destroy", name, "ok">>)]

Remove ==
  /\ pc = "running"
  /\ \E name \in ReqNames :
       LET r == RemoveResult(name, datasets)
       IN  /\ datasets' = r.datasets
           /\ last' = [Response("Remove", name) EXCEPT
                         !.err = r.err, !.calls = r.calls]
  /\ UNCHANGED <<pc, rds, creating>>

----------------------------------------------------------------------------
(* Unmount, Capabilities *)

\* Unmount looking the dataset up, as Mount does.
UnmountViaLookup ==
  /\ pc = "running"
  /\ \E name \in ReqNames :
       LET r == getMP(name, datasets, TRUE)
       IN  last' = [Response("Unmount", name) EXCEPT !.err = r.err, !.calls = r.calls]
  /\ UNCHANGED <<pc, rds, datasets, creating>>

Unmount ==
  /\ pc = "running"
  /\ \E name \in ReqNames : last' = Response("Unmount", name)
  /\ UNCHANGED <<pc, rds, datasets, creating>>

Capabilities ==
  /\ pc = "running"
  /\ last' = [Response("Capabilities", << >>) EXCEPT !.scope = "local"]
  /\ UNCHANGED <<pc, rds, datasets, creating>>

----------------------------------------------------------------------------
(* The specification *)

\* Before the plugin starts, any of the root datasets may exist already.
Init ==
  /\ pc = "init"
  /\ rds = << >>
  /\ datasets \in SUBSET RootNames
  /\ last = Response("none", << >>)
  /\ creating = [p \in Procs |-> Idle]

Next ==
  \/ NewZfsDriver
  \/ Create
  \/ List
  \/ Get
  \/ Path
  \/ Mount
  \/ Remove
  \/ Unmount
  \/ Capabilities

Spec == Init /\ [][Next]_vars

\* Overlapping Create calls: after startup, each caller makes one Create
\* call, in the two steps of its backend calls.
NextConc ==
  \/ NewZfsDriver
  \/ \E p \in Procs : CreateCheck(p)
  \/ \E p \in Procs : CreateMake(p)

SpecConc == Init /\ [][NextConc]_vars

----------------------------------------------------------------------------
(* Properties *)

Range(s) == { s[i] : i \in 1..Len(s) }

\* The names of the volumes of a List response, in its order.
VolumeNames(vols) == [i \in 1..Len(vols) |-> vols[i].Name]

\* The last operation asked the backend for d's mountpoint and got an error.
MountpointFailed(d) == <<"GetMountpoint", d, "err">> \in Range(last.calls)

\* The last operation got an error for some mountpoint.
AnyMountpointFailed == \E c \in Range(last.calls) : c[1] = "GetMountpoint" /\ c[3] = "err"

\* The same in the next state.
AnyMountpointFailedNext ==
  \E c \in Range(last'.calls) : c[1] = "GetMountpoint" /\ c[3] = "err"

\* The volume name has a separator with nothing before it or nothing after it.
EmptySegment(name) ==
  /\ Contains(name, "_")
  /\ \/ Index(name, "_") = 1
     \/ Index(name, "_") = Len(name)

RECURSIVE Flatten(_)
Flatten(ss) == IF ss = << >> THEN << >> ELSE Head(ss) \o Flatten(Tail(ss))

\* The datasets of dsl whose mountpoint the last operation could read.
Readable(dsl) == SelectSeq(dsl, LAMBDA d : ~MountpointFailed(d))

\* C1: when Create(n) has succeeded and the next operation is Get(n), with the
\* same name, and the backend gives the mountpoint, Get succeeds and returns a
\* Volume whose name is the dataset path Create resolved n to and whose
\* mountpoint is not empty.
C1_CreateThenGet ==
  [][ ( /\ last.op = "Create" /\ last.err = ""
        /\ last'.op = "Get" /\ last'.name = last.name
        /\ ~AnyMountpointFailedNext )
      => ( /\ last'.err = ""
           /\ last'.vol.Name = last.path
           /\ last'.vol.Mountpoint # << >> ) ]_vars

\* C2: for a volume name whose group segment or member segment around the
\* first separator is empty, the dataset path Create checks and creates is
\* the volume name unchanged.
C2_EmptySegmentNotGrouped ==
  (last.op = "Create" /\ EmptySegment(last.name)) => last.path = last.name

\* C3: every dataset a successful Create creates lies under exactly one
\* configured root dataset.
C3_CreatedUnderOneRoot ==
  (last.op = "Create" /\ last.err = "")
    => Cardinality({ r \in Range(rds) : IsUnder(last.path, r) }) = 1

\* C4: when Create(n) has succeeded and the next operation is Create(n) again,
\* it fails with the already-exists error, calls no backend creation and
\* leaves the datasets as they are; and no List returns two Volumes with the
\* same name.
C4_SecondCreateAndNoDuplicates ==
  [][ /\ ( /\ last.op = "Create" /\ last.err = ""
           /\ last'.op = "Create" /\ last'.name = last.name )
         => ( /\ last'.err = "AlreadyExists"
              /\ \A c \in Range(last'.calls) : c[1] # "CreateDatasetRecursive"
              /\ datasets' = datasets )
      /\ last'.op = "List"
         => \A i, j \in 1..Len(last'.vols) :
              last'.vols[i].Name = last'.vols[j].Name => i = j ]_vars

\* No dataset lies under two entries of the root list: no root is configured
\* twice, none below another.
DisjointRoots ==
  \A i, j \in 1..Len(rds) :
    i # j => (rds[i] # rds[j] /\ ~IsUnder(rds[i], rds[j]))

\* C4 (amended): a Create whose resolved dataset path exists fails with the
\* already-exists error, calls no backend creation and leaves the datasets as
\* they are; a Create that succeeds leaves a dataset at its resolved path, and
\* a Create of the same name next resolves to the same path and so fails in
\* that way; and a List over roots of which none is configured twice or below
\* another returns no two Volumes with the same name.
C4_SecondCreateFails ==
  [][ /\ (last'.op = "Create" /\ DatasetExists(datasets, last'.path))
         => ( /\ last'.err = "AlreadyExists"
              /\ \A c \in Range(last'.calls) : c[1] # "CreateDatasetRecursive"
              /\ datasets' = datasets )
      /\ (last'.op = "Create" /\ last'.err = "")
         => DatasetExists(datasets', last'.path)
      /\ ( /\ last.op = "Create" /\ last.err = ""
           /\ last'.op = "Create" /\ last'.name = last.name )
         => ( /\ last'.path = last.path
              /\ last'.err = "AlreadyExists"
              /\ datasets' = datasets )
      /\ (last'.op = "List" /\ DisjointRoots)
         => \A i, j \in 1..Len(last'.vols) :
              last'.vols[i].Name = last'.vols[j].Name => i = j ]_vars

\* C4's case: a Create of a grouped name was refused because its dataset
\* exists, under two different roots.
C4_Witness ==
  /\ last.op = "Create" /\ last.err = "AlreadyExists"
  /\ last.name = <<"a", "_", "b">>
  /\ rds = << <<"R">>, <<"S">> >>
  /\ DatasetExists(datasets, <<"R", "/", "a", "/", "b">>)

\* C5: Remove of a name with no dataset fails with the backend's not-found
\* error and changes nothing; Remove of a dataset without dependents succeeds
\* and destroys that dataset alone; Get of a name with no dataset fails with
\* not-found; and once the driver runs, a dataset comes to exist only by a
\* Create.
C5_RemoveThenNotFound ==
  [][ /\ (last'.op = "Remove" /\ ~DatasetExists(datasets, last'.name))
         => (last'.err = "NotFound" /\ datasets' = datasets)
      /\ ( /\ last'.op = "Remove" /\ DatasetExists(datasets, last'.name)
           /\ ~HasDependents(datasets, last'.name) )
         => ( /\ last'.err = ""
              /\ datasets' = datasets \ {last'.name}
              /\ ~DatasetExists(datasets', last'.name) )
      /\ (last'.op = "Get" /\ ~DatasetExists(datasets', last'.name))
         => last'.err = "NotFound"
      /\ (pc = "running" /\ datasets' \ datasets # {})
         => last'.op = "Create" ]_vars

\* C5's case: a Remove destroyed the dataset of a grouped volume.
C5_Witness ==
  /\ last.op = "Remove" /\ last.err = ""
  /\ last.name = <<"R", "/", "a", "/", "b">>
  /\ ~DatasetExists(datasets, last.name)

\* C6: when Create(n) has succeeded and the next operation is a List that
\* succeeds with every mountpoint read, over roots configured once each, the
\* List holds exactly one Volume named by the dataset path Create resolved n
\* to, for ungrouped names as for grouped ones.
C6_CreateThenListed ==
  [][ ( /\ last.op = "Create" /\ last.err = ""
        /\ last'.op = "List" /\ last'.err = ""
        /\ ~AnyMountpointFailedNext
        /\ \A i, j \in 1..Len(rds) : rds[i] = rds[j] => i = j )
      => Cardinality({ i \in 1..Len(last'.vols) : last'.vols[i].Name = last.path }) = 1
    ]_vars

\* C7: Get of an existing dataset fails exactly when the mountpoint read
\* fails; when the mountpoint is read and the creation time is not, Get
\* succeeds with the mountpoint in the Volume and no creation timestamp; a
\* timestamp is there only when the backend gave a creation time.
C7_GetToleratesCreation ==
  (last.op = "Get" /\ DatasetExists(datasets, last.name))
    => /\ (last.err # "") <=> MountpointFailed(last.name)
       /\ ( /\ ~MountpointFailed(last.name)
            /\ <<"GetCreation", last.name, "err">> \in Range(last.calls) )
          => ( /\ last.err = ""
               /\ last.vol.Name = last.name
               /\ last.vol.Mountpoint = GetMountpoint(last.name)
               /\ last.vol.Mountpoint # << >>
               /\ last.vol.CreatedAt = "" )
       /\ last.vol.CreatedAt # ""
          => <<"GetCreation", last.name, "ok">> \in Range(last.calls)

\* C7's case: a Get whose creation-time read failed.
C7_Witness ==
  /\ last.op = "Get" /\ last.err = ""
  /\ <<"GetCreation", last.name, "err">> \in Range(last.calls)
  /\ last.vol.Mountpoint # << >>
  /\ last.vol.CreatedAt = ""

\* C8: a List that succeeds returns the Volumes of the configured roots one
\* root after the other in configuration order, each root's in the order the
\* backend enumerates them (a dataset whose mountpoint read fails is left
\* out); with two roots of one dataset each, read without failure, it
\* returns exactly two Volumes, the first root's first.
C8_ListInRootOrder ==
  (last.op = "List" /\ last.err = "")
    => /\ VolumeNames(last.vols)
            = Flatten([i \in 1..Len(rds) |-> Readable(DatasetList(datasets, rds[i]))])
       /\ ( /\ Len(rds) = 2
            /\ Len(DatasetList(datasets, rds[1])) = 1
            /\ Len(DatasetList(datasets, rds[2])) = 1
            /\ ~AnyMountpointFailed )
          => ( /\ Len(last.vols) = 2
               /\ last.vols[1].Name = DatasetList(datasets, rds[1])[1]
               /\ last.vols[2].Name = DatasetList(datasets, rds[2])[1] )

\* C8's case: two different roots with one dataset each, both listed.
C8_Witness ==
  /\ last.op = "List" /\ last.err = ""
  /\ Len(rds) = 2 /\ rds[1] = <<"S">> /\ rds[2] = <<"R">>
  /\ Len(DatasetList(datasets, rds[1])) = 1
  /\ Len(DatasetList(datasets, rds[2])) = 1
  /\ Len(last.vols) = 2
  /\ IsUnder(last.vols[1].Name, <<"S">>)
  /\ IsUnder(last.vols[2].Name, <<"R">>)

\* C9: a List whose roots can all be enumerated succeeds whatever mountpoint
\* reads fail, and returns as Volumes exactly the enumerated datasets whose
\* mountpoint was read, each with that mountpoint.
C9_ListSkipsUnreadable ==
  (last.op = "List" /\ \A i \in 1..Len(rds) : DatasetExists(datasets, rds[i]))
    => /\ last.err = ""
       /\ { v.Name : v \in Range(last.vols) }
            = { d \in Listed(rds, datasets) : ~MountpointFailed(d) }
       /\ \A v \in Range(last.vols) : v.Mountpoint = GetMountpoint(v.Name)
       /\ Len(last.vols)
            = Cardinality({ k \in 1..Len(last.calls) :
                              last.calls[k][1] = "GetMountpoint" /\ last.calls[k][3] = "ok" })

\* C9's case: a mountpoint read fails between two that succeed in the first
\* root, and a dataset of a later root is listed after them.
C9_Witness ==
  /\ last.op = "List" /\ last.err = ""
  /\ Len(rds) = 2 /\ rds[1] # rds[2]
  /\ LET dsl == DatasetList(datasets, rds[1])
     IN  \E i, j, k \in 1..Len(dsl) :
           /\ i < j /\ j < k
           /\ MountpointFailed(dsl[j])
           /\ dsl[i] \in Range(VolumeNames(last.vols))
           /\ dsl[k] \in Range(VolumeNames(last.vols))
  /\ \E d \in Range(DatasetList(datasets, rds[2])) :
       d \in Range(VolumeNames(last.vols))

\* C10: for a volume name with a separator and non-empty segments on both
\* sides of the first one, Create targets <first root>/<group>/<member>, the
\* group being what precedes the first separator and the member all that
\* follows it, whatever the number of configured roots.
C10_GroupedUnderFirstRoot ==
  (last.op = "Create" /\ Contains(last.name, "_") /\ ~EmptySegment(last.name))
    => /\ \E k \in 1..Len(last.name) :
            /\ last.name[k] = "_"
            /\ \A j \in 1..(k - 1) : last.name[j] # "_"
            /\ last.path = rds[1] \o <<"/">> \o SubSeq(last.name, 1, k - 1)
                             \o <<"/">> \o SubSeq(last.name, k + 1, Len(last.name))
       /\ last.name = <<"a", "_", "b", "_", "c">>
          => last.path = rds[1] \o <<"/", "a", "/", "b", "_", "c">>

\* C10's case: with two different roots, a name with two separators was
\* created under the first.
C10_Witness ==
  /\ last.op = "Create" /\ last.err = ""
  /\ last.name = <<"a", "_", "b", "_", "c">>
  /\ rds = << <<"S">>, <<"R">> >>
  /\ DatasetExists(datasets, <<"S", "/", "a", "/", "b", "_", "c">>)

\* C11: for a volume name without the separator, Create checks and creates
\* the dataset of exactly that name: the path is the name unchanged, every
\* backend call names it, and a Create that succeeds leaves it existing.
C11_UngroupedNameUnchanged ==
  (last.op = "Create" /\ ~Contains(last.name, "_"))
    => /\ last.path = last.name
       /\ last.calls # << >>
       /\ \A c \in Range(last.calls) : c[2] = last.name
       /\ last.err = "" => DatasetExists(datasets, last.name)

\* C11's case: a name without separator was created, under no root.
C11_Witness ==
  /\ last.op = "Create" /\ last.err = ""
  /\ last.name = <<"a">>
  /\ DatasetExists(datasets, <<"a">>)
  /\ ~DatasetExists(datasets, rds[1] \o <<"/", "a">>)

\* C12: Unmount, for any name and in any state, calls the backend not at all,
\* leaves the datasets and the roots as they are, and returns no error.
C12_UnmountDoesNothing ==
  [][ last'.op = "Unmount"
      => ( /\ last'.calls = << >>
           /\ last'.err = ""
           /\ datasets' = datasets
           /\ rds' = rds ) ]_vars

\* C12's case: an Unmount of a name that has no dataset.
C12_Witness ==
  /\ last.op = "Unmount" /\ last.err = ""
  /\ last.name = <<"a", "_", "b">>
  /\ ~DatasetExists(datasets, last.name)

\* C13: Get, List, Path, Mount, Unmount and Capabilities leave the datasets
\* and the root list as they are, whether they succeed or fail, and Mount
\* calls the backend only to look the dataset up and read its mountpoint.
C13_ReadsChangeNothing ==
  [][ /\ last'.op \in {"Get", "List", "Path", "Mount", "Unmount", "Capabilities"}
         => (datasets' = datasets /\ rds' = rds)
      /\ last'.op = "Mount"
         => \A c \in Range(last'.calls) : c[1] \in {"GetDataset", "GetMountpoint"}
    ]_vars

\* C13's case: a Mount that failed for a name with no dataset, which was not
\* created.
C13_Witness ==
  /\ last.op = "Mount" /\ last.err = "NotFound"
  /\ last.name = <<"S", "/", "c">>
  /\ ~DatasetExists(datasets, last.name)

\* C14: once the driver runs, every configured root dataset exists.
C14_RootsPersist ==
  pc = "running" => \A i \in 1..Len(rds) : DatasetExists(datasets, rds[i])

\* C16: a Create that returns an error leaves no dataset that was absent
\* before it; in particular no group parent made on the way to a dataset
\* whose creation failed.
C16_FailedCreateLeavesNothing ==
  [][ (last'.op = "Create" /\ last'.err # "") => datasets' \subseteq datasets ]_vars

\* C17: NewZfsDriver with an empty root list fails without a backend call.
\* With roots, it checks them in configuration order, creates the absent
\* ones and leaves the present ones alone; at the first backend error it
\* returns the error and no driver, keeps what it created for the earlier
\* roots, and neither checks nor creates a later root.
C17_StartupFailsFast ==
  [][ last'.op = "NewZfsDriver"
      => LET dss == last'.dss
             calls == last'.calls
             checked == SelectSeq(calls, LAMBDA c : c[1] = "DatasetExists")
             k == Len(checked)
         IN  /\ dss = << >>
                => ( /\ last'.err # "" /\ calls = << >>
                     /\ pc' = "failed" /\ datasets' = datasets )
             /\ (last'.err = "") <=> (pc' = "running")
             /\ last'.err # "" => (pc' = "failed" /\ rds' = << >>)
             /\ k <= Len(dss)
             /\ \A i \in 1..k : checked[i][2] = dss[i]
             /\ \A c \in Range(calls) : c[2] \in { dss[i] : i \in 1..k }
             /\ \A c \in Range(calls) :
                  c[1] = "CreateDatasetRecursive" => ~DatasetExists(datasets, c[2])
             /\ datasets \subseteq datasets'
             /\ last'.err = ""
                => ( /\ k = Len(dss)
                     /\ rds' = dss
                     /\ datasets' = datasets \cup Range(dss) )
             /\ (last'.err # "" /\ dss # << >>)
                => ( /\ k >= 1
                     /\ calls[Len(calls)][3] = "err"
                     /\ \A n \in 1..(Len(calls) - 1) : calls[n][3] # "err"
                     /\ \A i \in 1..(k - 1) : DatasetExists(datasets', dss[i])
                     /\ datasets' \ datasets \subseteq { dss[i] : i \in 1..k } )
    ]_vars

\* C17's case: the first root was absent and created, the second failed and
\* was not created, and there is no driver.
C17_Witness ==
  /\ last.op = "NewZfsDriver" /\ last.err # "" /\ pc = "failed"
  /\ last.dss = << <<"R">>, <<"S">> >>
  /\ <<"CreateDatasetRecursive", <<"R">>, "ok">> \in Range(last.calls)
  /\ DatasetExists(datasets, <<"R">>)
  /\ ~DatasetExists(datasets, <<"S">>)

\* C18: a List in which the enumeration of a configured root fails returns
\* an error and no Volume, whatever it collected from the roots before; and
\* a List fails only in that way.
C18_ListAllOrNothing ==
  last.op = "List"
    => /\ ( \/ \E c \in Range(last.calls) : c[1] = "DatasetList" /\ c[3] = "err"
            \/ \E i \in 1..Len(rds) : ~DatasetExists(datasets, rds[i]) )
          => (last.err # "" /\ last.vols = << >>)
       /\ last.err # ""
          => \E c \in Range(last.calls) : c[1] = "DatasetList" /\ c[3] = "err"

\* C18's case: the first root gave a dataset with its mountpoint, the second
\* root could not be enumerated.
C18_Witness ==
  /\ last.op = "List" /\ last.err # "" /\ last.vols = << >>
  /\ rds = << <<"S">>, <<"R">> >>
  /\ <<"DatasetList", <<"R">>, "err">> \in Range(last.calls)
  /\ \E c \in Range(last.calls) : c[1] = "GetMountpoint" /\ c[3] = "ok"

\* The grouped name and the qualified name of one dataset under the root R.
GroupedName == <<"a", "_", "b">>

QualifiedName == <<"R", "/", "a", "/", "b">>

\* C19: with R the first root, Create resolves "a_b" and "R/a/b" to the same
\* dataset path, so that a Create of either right after a successful Create
\* of either fails with already-exists; Get, Remove, Path and Mount find no
\* dataset under the name "a_b", and find the dataset under "R/a/b" whenever
\* it exists.
C19_TwoNamesOneDataset ==
  [][ (pc' = "running" /\ rds'[1] = <<"R">>)
      => /\ (last'.op = "Create" /\ last'.name \in {GroupedName, QualifiedName})
            => last'.path = QualifiedName
         /\ ( /\ last.op = "Create" /\ last.err = ""
              /\ last.name \in {GroupedName, QualifiedName}
              /\ last'.op = "Create"
              /\ last'.name \in {GroupedName, QualifiedName} )
            => last'.err = "AlreadyExists"
         /\ (last'.op \in {"Get", "Remove", "Path", "Mount"} /\ last'.name = GroupedName)
            => (last'.err = "NotFound" /\ datasets' = datasets)
         /\ ( /\ last'.op \in {"Get", "Remove", "Path", "Mount"}
              /\ last'.name = QualifiedName
              /\ DatasetExists(datasets, QualifiedName) )
            => <<"GetDataset", QualifiedName, "ok">> \in Range(last'.calls)
    ]_vars

\* C19's case: the dataset of "a_b" exists and Path does not find it under
\* that name.
C19_Witness ==
  /\ last.op = "Path" /\ last.err = "NotFound"
  /\ last.name = GroupedName
  /\ pc = "running" /\ rds[1] = <<"R">>
  /\ DatasetExists(datasets, QualifiedName)

\* C20: a dataset ceases to exist only by a successful Remove of its own
\* path, which destroys nothing else; so a group parent outlives the Remove
\* of its members, and a List that succeeds holds every dataset under the
\* first root whose mountpoint it could read, an empty group parent included.
C20_ParentOutlivesMembers ==
  [][ /\ \A p \in datasets \ datasets' :
           last'.op = "Remove" /\ last'.name = p /\ last'.err = ""
      /\ (last'.op = "Remove" /\ last'.err = "")
         => datasets \ datasets' = {last'.name}
      /\ (last'.op = "List" /\ last'.err = "")
         => \A d \in datasets' :
              ( /\ IsUnder(d, rds[1])
                /\ <<"GetMountpoint", d, "err">> \notin Range(last'.calls) )
              => d \in Range(VolumeNames(last'.vols))
    ]_vars

\* C20's case: the last member of the group a under the first root R was
\* removed and the group parent R/a is still there.
C20_Witness ==
  /\ last.op = "Remove" /\ last.err = ""
  /\ last.name = QualifiedName
  /\ pc = "running" /\ rds[1] = <<"R">>
  /\ DatasetExists(datasets, <<"R", "/", "a">>)
  /\ ~HasDependents(datasets, <<"R", "/", "a">>)

\* C15: under overlapping Create calls, of two finished calls that resolved
\* to the same dataset path at most one returned success, a call that
\* returned success left its dataset in existence, and a call whose creation
\* the backend refused as a duplicate returned the already-exists error that
\* a Create of an existing dataset returns.
C15_LoserGetsAlreadyExists ==
  /\ \A p, q \in Procs :
       ( /\ p # q
         /\ creating[p].stage = "done" /\ creating[q].stage = "done"
         /\ creating[p].path = creating[q].path )
       => ~(creating[p].err = "" /\ creating[q].err = "")
  /\ \A p \in Procs :
       (creating[p].stage = "done" /\ creating[p].err = "")
       => DatasetExists(datasets, creating[p].path)
  /\ \A p \in Procs :
       (creating[p].stage = "done" /\ creating[p].dup)
       => creating[p].err = "AlreadyExists"

====
